---- MODULE Spec2Model ----
(***************************************************************************)
(* Model of DbcParser (dbc_excel.py): the eleven extraction passes of      *)
(* parse() over one immutable text, followed by the ValueTables sheet of   *)
(* create_excel_from_dbc.                                                  *)
(*                                                                         *)
(* The text is a sequence of lines.  A line is [kw, f]: the keyword that   *)
(* opens the statement and the fields the statement's pattern captures,    *)
(* each field a Python str (a TLA+ string).  Python ints that hold message *)
(* IDs are unbounded; they are kept as two limbs [hi, lo] of 16 bits       *)
(* (value = hi * 2^16 + lo) so that 0x80000000 and above are exact.        *)
(*                                                                         *)
(* A pattern is matched against the line its keyword opens, each captured  *)
(* group against the field it captures.  The one pattern followed over a   *)
(* line end is BU_:\s*(.+), because a text with an empty node list ends    *)
(* the BU_: line right after the colon.  Statements cut short so that a    *)
(* pattern would run into the next statement are not among the texts.      *)
(***************************************************************************)
EXTENDS Integers, Sequences, FiniteSets, TLC

VARIABLES content, pc, nodes, messages, signals, value_tables,
          signal_value_tables, env_var_value_tables, comments, ba_defs,
          ba_assignments, extra_transmitters, env_vars, signal_value_types,
          value_table_rows

vars == <<content, pc, nodes, messages, signals, value_tables,
          signal_value_tables, env_var_value_tables, comments, ba_defs,
          ba_assignments, extra_transmitters, env_vars, signal_value_types,
          value_table_rows>>

(***************************************************************************)
(* Python str primitives                                                   *)
(***************************************************************************)
Char(s, i) == SubSeq(s, i, i)

DigitChars == {"0", "1", "2", "3", "4", "5", "6", "7", "8", "9"}

DigitVal(c) ==
    CASE c = "0" -> 0 [] c = "1" -> 1 [] c = "2" -> 2 [] c = "3" -> 3
      [] c = "4" -> 4 [] c = "5" -> 5 [] c = "6" -> 6 [] c = "7" -> 7
      [] c = "8" -> 8 [] c = "9" -> 9

HexDigits == <<"0", "1", "2", "3", "4", "5", "6", "7", "8", "9",
               "A", "B", "C", "D", "E", "F">>

\* the regex class \d+ spanning a whole whitespace-delimited token
ReDigits(s) == Len(s) > 0 /\ \A i \in 1..Len(s) : Char(s, i) \in DigitChars

\* the regex -?\d+ spanning a whole token (value-table keys)
ReSignedDigits(s) ==
    IF Len(s) > 0 /\ Char(s, 1) = "-"
    THEN ReDigits(SubSeq(s, 2, Len(s)))
    ELSE ReDigits(s)

\* str.isdigit()
isdigit(s) == Len(s) > 0 /\ \A i \in 1..Len(s) : Char(s, i) \in DigitChars

\* str.startswith(p)
startswith(s, p) == Len(s) >= Len(p) /\ SubSeq(s, 1, Len(p)) = p

\* str.strip(ch) for a single character ch
RECURSIVE lstrip(_, _)
lstrip(s, ch) ==
    IF Len(s) > 0 /\ Char(s, 1) = ch THEN lstrip(SubSeq(s, 2, Len(s)), ch) ELSE s

RECURSIVE rstrip(_, _)
rstrip(s, ch) ==
    IF Len(s) > 0 /\ Char(s, Len(s)) = ch
    THEN rstrip(SubSeq(s, 1, Len(s) - 1), ch) ELSE s

strip(s, ch) == rstrip(lstrip(s, ch), ch)

\* sep.join(parts)
RECURSIVE join(_, _)
join(sep, parts) ==
    IF Len(parts) = 0 THEN ""
    ELSE IF Len(parts) = 1 THEN parts[1]
    ELSE parts[1] \o sep \o join(sep, Tail(parts))

\* the maximal runs of s free of the characters in seps, from position i on
RECURSIVE SplitFrom(_, _, _, _)
SplitFrom(s, seps, i, cur) ==
    IF i > Len(s) THEN (IF cur = "" THEN <<>> ELSE <<cur>>)
    ELSE IF Char(s, i) \in seps
         THEN (IF cur = "" THEN <<>> ELSE <<cur>>) \o SplitFrom(s, seps, i + 1, "")
         ELSE SplitFrom(s, seps, i + 1, cur \o Char(s, i))

\* s.split()
split(s) == SplitFrom(s, {" "}, 1, "")

\* s.replace(',', ' ').split()
split_list(s) == SplitFrom(s, {" ", ","}, 1, "")

\* s.split(None, n): at most n splits, the remainder kept as one part
RECURSIVE split_max(_, _)
split_max(s, n) ==
    LET t == lstrip(s, " ")
        RECURSIVE WordEnd(_)
        WordEnd(i) == IF i > Len(t) \/ Char(t, i) = " " THEN i - 1 ELSE WordEnd(i + 1)
        e == WordEnd(1)
    IN  IF t = "" THEN <<>>
        ELSE IF n = 0 THEN <<t>>
        ELSE <<SubSeq(t, 1, e)>> \o split_max(SubSeq(t, e + 1, Len(t)), n - 1)

(***************************************************************************)
(* Python int                                                              *)
(***************************************************************************)
LimbBase == 2 ^ 16

Big(h, l) == [hi |-> h, lo |-> l]

\* int(s) for a token of decimal digits, exact for any ten-digit token
RECURSIVE BigFrom(_, _, _)
BigFrom(s, i, acc) ==
    IF i > Len(s) THEN acc
    ELSE LET t == acc.lo * 10 + DigitVal(Char(s, i))
         IN  BigFrom(s, i + 1, Big(acc.hi * 10 + (t \div LimbBase), t % LimbBase))

int_id(s) == BigFrom(s, 1, Big(0, 0))

\* 0x80000000
EXT_FLAG == Big(2 ^ 15, 0)

BigGE(a, b) == a.hi > b.hi \/ (a.hi = b.hi /\ a.lo >= b.lo)

\* a - b for a >= b
BigSub(a, b) ==
    IF a.lo >= b.lo THEN Big(a.hi - b.hi, a.lo - b.lo)
    ELSE Big(a.hi - b.hi - 1, a.lo + LimbBase - b.lo)

BigAdd(a, b) ==
    Big(a.hi + b.hi + ((a.lo + b.lo) \div LimbBase), (a.lo + b.lo) % LimbBase)

\* f"{n}" for a message ID
RECURSIVE BigStr(_)
BigStr(a) ==
    LET t == (a.hi % 10) * LimbBase + a.lo
        q == Big(a.hi \div 10, t \div 10)
        d == HexDigits[(t % 10) + 1]
    IN  IF a.hi = 0 /\ a.lo < 10 THEN d ELSE BigStr(q) \o d

\* BigHex with the X format left out: f"{n}"
BigHex_NoFormat(a) == BigStr(a)

\* f"{n:X}" for a message ID
RECURSIVE BigHex(_)
BigHex(a) ==
    LET t == (a.hi % 16) * LimbBase + a.lo
        q == Big(a.hi \div 16, t \div 16)
        d == HexDigits[(t % 16) + 1]
    IN  IF a.hi = 0 /\ a.lo < 16 THEN d ELSE BigHex(q) \o d

\* int(s) for a short token of the form -?\d+
RECURSIVE NatFrom(_, _, _)
NatFrom(s, i, acc) ==
    IF i > Len(s) THEN acc ELSE NatFrom(s, i + 1, acc * 10 + DigitVal(Char(s, i)))

int(s) ==
    IF Char(s, 1) = "-" THEN 0 - NatFrom(s, 2, 0) ELSE NatFrom(s, 1, 0)

\* f"{k}" for a small int
RECURSIVE NatStr(_)
NatStr(n) ==
    IF n < 10 THEN HexDigits[n + 1] ELSE NatStr(n \div 10) \o HexDigits[(n % 10) + 1]

IntStr(k) == IF k < 0 THEN "-" \o NatStr(0 - k) ELSE NatStr(k)

\* dict primitives: a dict is a function on its key set
EmptyDict == [k \in {} |-> k]

Put(d, k, v) == [x \in (DOMAIN d) \cup {k} |-> IF x = k THEN v ELSE d[x]]

(***************************************************************************)
(* The source text                                                         *)
(***************************************************************************)
L(k, fields) == [kw |-> k, f |-> fields]

\* the characters of a line as they stand in the file
LineText(line) ==
    LET f == line.f IN
    CASE line.kw = "" -> ""
      [] line.kw = "BU_:" -> IF f[1] = "" THEN "BU_:" ELSE "BU_: " \o f[1]
      [] line.kw = "BO_" ->
            "BO_ " \o f[1] \o " " \o f[2] \o ": " \o f[3] \o " " \o f[4]
      [] line.kw = "SG_" ->
            " SG_ " \o f[1] \o " " \o (IF f[2] = "" THEN "" ELSE f[2] \o " ")
            \o ": " \o f[3] \o "|" \o f[4] \o "@" \o f[5] \o f[6]
            \o " (" \o f[7] \o "," \o f[8] \o ") [" \o f[9] \o "|" \o f[10]
            \o "] \"" \o f[11] \o "\" " \o f[12]
      [] line.kw = "CM_" ->
            "CM_ " \o join(" ", SubSeq(f, 1, Len(f) - 1))
            \o " \"" \o f[Len(f)] \o "\";"
      [] line.kw = "BA_DEF_" ->
            "BA_DEF_ " \o (IF f[1] = "" THEN "" ELSE f[1] \o " ")
            \o "\"" \o f[2] \o "\" " \o f[3] \o " " \o f[4] \o ";"
      [] line.kw = "BA_" -> "BA_ \"" \o f[1] \o "\" " \o f[2] \o ";"
      [] line.kw = "BO_TX_BU_" -> "BO_TX_BU_ " \o f[1] \o " : " \o f[2] \o ";"
      [] line.kw = "EV_" ->
            "EV_ " \o f[1] \o ": " \o f[2] \o " [" \o f[3] \o "|" \o f[4]
            \o "] \"" \o f[5] \o "\" " \o f[6] \o " " \o f[7] \o " " \o f[8]
            \o " " \o f[9] \o ";"
      [] line.kw = "SIG_VALTYPE_" ->
            "SIG_VALTYPE_ " \o f[1] \o " " \o f[2] \o " : " \o f[3] \o ";"
      [] OTHER -> line.kw \o " " \o join(" ", f) \o " ;"

(***************************************************************************)
(* _parse_nodes                                                            *)
(***************************************************************************)
\* what (.+) captures after 'BU_:\s*' at line i: the rest of that line, or,
\* when the line ends after the colon, the next line that is not blank
\* (\s* runs over line ends), or nothing
RECURSIVE NodesCapture(_, _, _)
NodesCapture(c, i, first) ==
    IF i > Len(c) THEN ""
    ELSE IF first THEN (IF c[i].f[1] # "" THEN c[i].f[1] ELSE NodesCapture(c, i + 1, FALSE))
    ELSE IF LineText(c[i]) # "" THEN LineText(c[i])
    ELSE NodesCapture(c, i + 1, FALSE)

RECURSIVE FirstNodeLine(_, _)
FirstNodeLine(c, i) ==
    IF i > Len(c) THEN 0
    ELSE IF c[i].kw = "BU_:" THEN i ELSE FirstNodeLine(c, i + 1)

parse_nodes(c) ==
    LET i == FirstNodeLine(c, 1)
        nodes_str == IF i = 0 THEN "" ELSE NodesCapture(c, i, TRUE)
    IN  split(nodes_str)

(***************************************************************************)
(* _parse_value_dict, _parse_value_tables                                  *)
(***************************************************************************)
IsQuoted(s) == Len(s) >= 2 /\ Char(s, 1) = "\"" /\ Char(s, Len(s)) = "\""

\* parse_value_dict with a key kept at its first occurrence
RECURSIVE parse_value_dict_FirstWins(_, _, _)
parse_value_dict_FirstWins(toks, i, result) ==
    IF i >= Len(toks) THEN result
    ELSE IF ReSignedDigits(toks[i]) /\ IsQuoted(toks[i + 1])
         THEN parse_value_dict_FirstWins(toks, i + 2,
                  IF int(toks[i]) \in DOMAIN result THEN result
                  ELSE Put(result, int(toks[i]),
                           SubSeq(toks[i + 1], 2, Len(toks[i + 1]) - 1)))
         ELSE parse_value_dict_FirstWins(toks, i + 1, result)

\* finditer of (-?\d+)\s+"([^"]*)" over the tokens of values_str
RECURSIVE parse_value_dict(_, _, _)
parse_value_dict(toks, i, result) ==
    IF i >= Len(toks) THEN result
    ELSE IF ReSignedDigits(toks[i]) /\ IsQuoted(toks[i + 1])
         THEN parse_value_dict(toks, i + 2,
                  Put(result, int(toks[i]), SubSeq(toks[i + 1], 2, Len(toks[i + 1]) - 1)))
         ELSE parse_value_dict(toks, i + 1, result)

ValueDict(toks) == parse_value_dict(toks, 1, EmptyDict)

RECURSIVE parse_value_tables(_, _, _)
parse_value_tables(c, i, tables) ==
    IF i > Len(c) THEN tables
    ELSE IF c[i].kw = "VAL_TABLE_" /\ Len(c[i].f) >= 2
         THEN parse_value_tables(c, i + 1,
                  Put(tables, c[i].f[1], ValueDict(SubSeq(c[i].f, 2, Len(c[i].f)))))
         ELSE parse_value_tables(c, i + 1, tables)

(***************************************************************************)
(* _parse_messages_and_signals                                             *)
(***************************************************************************)
\* msg_pattern
MsgMatch(line) ==
    line.kw = "BO_" /\ Len(line.f) = 4 /\ ReDigits(line.f[1]) /\ ReDigits(line.f[3])

\* MsgRecord with the flag test written > instead of >=
MsgRecord_StrictGreater(line) ==
    LET msg_id_raw == int_id(line.f[1])
        is_extended == BigGE(msg_id_raw, EXT_FLAG) /\ msg_id_raw # EXT_FLAG
        msg_id == IF is_extended THEN BigSub(msg_id_raw, EXT_FLAG) ELSE msg_id_raw
    IN  [id |-> msg_id, id_hex |-> "0x" \o BigHex(msg_id), name |-> line.f[2],
         dlc |-> int(line.f[3]), transmitter |-> line.f[4],
         is_extended |-> is_extended, comment |-> ""]

\* the message dict built for one match of msg_pattern
MsgRecord(line) ==
    LET msg_id_raw == int_id(line.f[1])
        is_extended == BigGE(msg_id_raw, EXT_FLAG)
        msg_id == IF is_extended THEN BigSub(msg_id_raw, EXT_FLAG) ELSE msg_id_raw
    IN  [id |-> msg_id, id_hex |-> "0x" \o BigHex(msg_id), name |-> line.f[2],
         dlc |-> int(line.f[3]), transmitter |-> line.f[4],
         is_extended |-> is_extended, comment |-> ""]

RECURSIVE parse_messages(_, _)
parse_messages(c, i) ==
    IF i > Len(c) THEN <<>>
    ELSE IF MsgMatch(c[i]) THEN <<MsgRecord(c[i])>> \o parse_messages(c, i + 1)
    ELSE parse_messages(c, i + 1)

\* the optional multiplexing token (M|m\d+M?)?
MuxMatch(s) ==
    \/ s = ""
    \/ s = "M"
    \/ Len(s) >= 2 /\ Char(s, 1) = "m" /\ ReDigits(SubSeq(s, 2, Len(s)))
    \/ Len(s) >= 3 /\ Char(s, 1) = "m" /\ Char(s, Len(s)) = "M"
         /\ ReDigits(SubSeq(s, 2, Len(s) - 1))

\* sig_pattern
SigMatch(line) ==
    /\ line.kw = "SG_" /\ Len(line.f) = 12
    /\ MuxMatch(line.f[2])
    /\ ReDigits(line.f[3]) /\ ReDigits(line.f[4])
    /\ line.f[5] \in {"0", "1"} /\ line.f[6] \in {"+", "-"}
    /\ line.f[12] # ""

\* FindMsgBefore with the loop left at the first match
RECURSIVE FindMsgBefore_KeepFirst(_, _, _, _)
FindMsgBefore_KeepFirst(c, sig_pos, k, msg_id) ==
    IF k >= sig_pos \/ msg_id # <<>> THEN msg_id
    ELSE IF MsgMatch(c[k])
         THEN LET msg_id_raw == int_id(c[k].f[1])
              IN  FindMsgBefore_KeepFirst(c, sig_pos, k + 1,
                     <<IF BigGE(msg_id_raw, EXT_FLAG)
                       THEN BigSub(msg_id_raw, EXT_FLAG) ELSE msg_id_raw>>)
         ELSE FindMsgBefore_KeepFirst(c, sig_pos, k + 1, msg_id)

\* FindMsgBefore with the search run over content instead of content[:sig_pos]
RECURSIVE FindMsgBefore_WholeText(_, _, _, _)
FindMsgBefore_WholeText(c, sig_pos, k, msg_id) ==
    IF k > Len(c) THEN msg_id
    ELSE IF MsgMatch(c[k])
         THEN LET msg_id_raw == int_id(c[k].f[1])
              IN  FindMsgBefore_WholeText(c, sig_pos, k + 1,
                     <<IF BigGE(msg_id_raw, EXT_FLAG)
                       THEN BigSub(msg_id_raw, EXT_FLAG) ELSE msg_id_raw>>)
         ELSE FindMsgBefore_WholeText(c, sig_pos, k + 1, msg_id)

\* the backwards search: msg_pattern over content[:sig_pos]; the loop
\* variable keeps the ID of the last match, <<>> stands for None
RECURSIVE FindMsgBefore(_, _, _, _)
FindMsgBefore(c, sig_pos, k, msg_id) ==
    IF k >= sig_pos THEN msg_id
    ELSE IF MsgMatch(c[k])
         THEN LET msg_id_raw == int_id(c[k].f[1])
              IN  FindMsgBefore(c, sig_pos, k + 1,
                     <<IF BigGE(msg_id_raw, EXT_FLAG)
                       THEN BigSub(msg_id_raw, EXT_FLAG) ELSE msg_id_raw>>)
         ELSE FindMsgBefore(c, sig_pos, k + 1, msg_id)

\* the signal dict built for one match of sig_pattern
SignalRecord(line, msg_id) ==
    LET f == line.f IN
    [msg_id |-> msg_id, name |-> f[1], start_bit |-> int(f[3]),
     length |-> int(f[4]), byte_order_sign |-> "@" \o f[5] \o f[6],
     factor_offset |-> "(" \o strip(f[7], " ") \o "," \o strip(f[8], " ") \o ")",
     min_max |-> "[" \o strip(f[9], " ") \o "|" \o strip(f[10], " ") \o "]",
     unit |-> f[11], receivers |-> join(",", split_list(f[12])),
     multiplexing |-> f[2], comment |-> "", value_table |-> ""]

RECURSIVE parse_signals(_, _, _)
parse_signals(c, i, sigs) ==
    IF i > Len(c) THEN sigs
    ELSE IF SigMatch(c[i])
         THEN LET found == FindMsgBefore(c, i, 1, <<>>)
              IN  IF found # <<>> /\ found[1] \in DOMAIN sigs
                  THEN parse_signals(c, i + 1,
                          Put(sigs, found[1],
                              Append(sigs[found[1]], SignalRecord(c[i], found[1]))))
                  ELSE parse_signals(c, i + 1, sigs)
         ELSE parse_signals(c, i + 1, sigs)

EmptySignalLists(msgs) == [k \in {msgs[j].id : j \in 1..Len(msgs)} |-> <<>>]

(***************************************************************************)
(* _parse_signal_val_entries, _parse_env_var_val_entries                   *)
(***************************************************************************)
\* VAL_\s+(\d+)\s+(\S+)\s+(.+?)\s*;
SigValMatch(line) ==
    line.kw = "VAL_" /\ Len(line.f) >= 3 /\ ReDigits(line.f[1])

SigValKey(line) ==
    LET msg_id_raw == int_id(line.f[1])
        msg_id == IF BigGE(msg_id_raw, EXT_FLAG)
                  THEN BigSub(msg_id_raw, EXT_FLAG) ELSE msg_id_raw
    IN  <<msg_id, line.f[2]>>

RECURSIVE parse_signal_val_entries(_, _, _)
parse_signal_val_entries(c, i, tables) ==
    IF i > Len(c) THEN tables
    ELSE IF SigValMatch(c[i])
         THEN parse_signal_val_entries(c, i + 1,
                  Put(tables, SigValKey(c[i]), ValueDict(SubSeq(c[i].f, 3, Len(c[i].f)))))
         ELSE parse_signal_val_entries(c, i + 1, tables)

\* VAL_\s+(\S+)\s+(.+?)\s*;
EnvValMatch(line) == line.kw = "VAL_" /\ Len(line.f) >= 2

\* IsEnvVarEntry with the test made on the first character only
IsEnvVarEntry_FirstChar(first_token) == ~ isdigit(Char(first_token, 1))

\* the test on first_token that lets an entry into env_var_value_tables
IsEnvVarEntry(first_token) == ~ isdigit(first_token)

RECURSIVE parse_env_var_val_entries(_, _, _)
parse_env_var_val_entries(c, i, tables) ==
    IF i > Len(c) THEN tables
    ELSE IF EnvValMatch(c[i]) /\ IsEnvVarEntry(c[i].f[1])
         THEN parse_env_var_val_entries(c, i + 1,
                  Put(tables, c[i].f[1], ValueDict(SubSeq(c[i].f, 2, Len(c[i].f)))))
         ELSE parse_env_var_val_entries(c, i + 1, tables)

(***************************************************************************)
(* _parse_comments                                                         *)
(***************************************************************************)
Comment(type, scope, text) == [type |-> type, scope |-> scope, comment |-> text]

\* CM_\s+BO_\s+(\d+)\s+"([^"]*)"\s*;
CmBoMatch(line) ==
    line.kw = "CM_" /\ Len(line.f) = 3 /\ line.f[1] = "BO_" /\ ReDigits(line.f[2])

CmBoRecord(line) ==
    LET msg_id_raw == int_id(line.f[2])
        msg_id == IF BigGE(msg_id_raw, EXT_FLAG)
                  THEN BigSub(msg_id_raw, EXT_FLAG) ELSE msg_id_raw
    IN  Comment("BO", BigStr(msg_id), line.f[3])

\* CM_\s+SG_\s+(\d+)\s+(\S+)\s+"([^"]*)"\s*;
CmSgMatch(line) ==
    line.kw = "CM_" /\ Len(line.f) = 4 /\ line.f[1] = "SG_" /\ ReDigits(line.f[2])

CmSgRecord(line) ==
    LET msg_id_raw == int_id(line.f[2])
        msg_id == IF BigGE(msg_id_raw, EXT_FLAG)
                  THEN BigSub(msg_id_raw, EXT_FLAG) ELSE msg_id_raw
    IN  Comment("SG", BigStr(msg_id) \o ":" \o line.f[3], line.f[4])

\* CM_\s+BU_\s+(\S+)\s+"([^"]*)"\s*;  and  CM_\s+EV_\s+(\S+)\s+"([^"]*)"\s*;
CmNamedMatch(line, tag) ==
    line.kw = "CM_" /\ Len(line.f) = 3 /\ line.f[1] = tag

RECURSIVE CommentScan(_, _, _)
CommentScan(c, i, kind) ==
    IF i > Len(c) THEN <<>>
    ELSE (CASE kind = "BO" /\ CmBoMatch(c[i]) -> <<CmBoRecord(c[i])>>
            [] kind = "SG" /\ CmSgMatch(c[i]) -> <<CmSgRecord(c[i])>>
            [] kind = "BU" /\ CmNamedMatch(c[i], "BU_") ->
                  <<Comment("BU", c[i].f[2], c[i].f[3])>>
            [] kind = "EV" /\ CmNamedMatch(c[i], "EV_") ->
                  <<Comment("EV", c[i].f[2], c[i].f[3])>>
            [] OTHER -> <<>>) \o CommentScan(c, i + 1, kind)

parse_comments(c) ==
    CommentScan(c, 1, "BO") \o CommentScan(c, 1, "SG")
    \o CommentScan(c, 1, "BU") \o CommentScan(c, 1, "EV")

(***************************************************************************)
(* _parse_ba_defs                                                          *)
(***************************************************************************)
LowerChars == <<"a", "b", "c", "d", "e", "f", "g", "h", "i", "j", "k", "l", "m",
                "n", "o", "p", "q", "r", "s", "t", "u", "v", "w", "x", "y", "z">>

UpperChars == <<"A", "B", "C", "D", "E", "F", "G", "H", "I", "J", "K", "L", "M",
                "N", "O", "P", "Q", "R", "S", "T", "U", "V", "W", "X", "Y", "Z">>

\* str.upper()
RECURSIVE upper(_)
upper(s) ==
    IF s = "" THEN ""
    ELSE LET ch == Char(s, 1)
             up == IF \E j \in 1..26 : LowerChars[j] = ch
                   THEN UpperChars[CHOOSE j \in 1..26 : LowerChars[j] = ch]
                   ELSE ch
         IN  up \o upper(SubSeq(s, 2, Len(s)))

\* BA_DEF_\s+(BU_|BO_|SG_|EV_)?\s*"([^"]+)"\s+(\S+)\s*([^;]*);
BaDefMatch(line) ==
    /\ line.kw = "BA_DEF_" /\ Len(line.f) = 4
    /\ line.f[1] \in {"", "BU_", "BO_", "SG_", "EV_"}
    /\ line.f[2] # "" /\ line.f[3] # ""

BaDefScope(scope_raw) ==
    LET scope == IF scope_raw # "" THEN upper(strip(scope_raw, "_")) ELSE "GLOBAL"
    IN  CASE scope = "BO" -> "MESSAGE"
          [] scope = "BU" -> "NODE"
          [] scope = "SG" -> "SIGNAL"
          [] scope = "EV" -> "ENV"
          [] OTHER -> scope

\* BaDefRecord with FLOAT left out of the numeric types
BaDefRecord_NoFloat(line) ==
    LET type_str == upper(line.f[3])
        params == strip(line.f[4], " ")
        parts == split(params)
        numeric == type_str \in {"INT", "HEX"} /\ Len(parts) >= 2
    IN  [scope |-> BaDefScope(line.f[1]), name |-> line.f[2], type |-> type_str,
         min |-> IF numeric THEN parts[1] ELSE "",
         max |-> IF numeric THEN parts[2] ELSE "",
         enum_vals |-> IF type_str = "ENUM" THEN params ELSE ""]

BaDefRecord(line) ==
    LET type_str == upper(line.f[3])
        params == strip(line.f[4], " ")
        parts == split(params)
        numeric == type_str \in {"INT", "HEX", "FLOAT"} /\ Len(parts) >= 2
    IN  [scope |-> BaDefScope(line.f[1]), name |-> line.f[2], type |-> type_str,
         min |-> IF numeric THEN parts[1] ELSE "",
         max |-> IF numeric THEN parts[2] ELSE "",
         enum_vals |-> IF type_str = "ENUM" THEN params ELSE ""]

RECURSIVE parse_ba_defs(_, _)
parse_ba_defs(c, i) ==
    IF i > Len(c) THEN <<>>
    ELSE IF BaDefMatch(c[i]) THEN <<BaDefRecord(c[i])>> \o parse_ba_defs(c, i + 1)
    ELSE parse_ba_defs(c, i + 1)

(***************************************************************************)
(* _parse_ba_assignments                                                   *)
(***************************************************************************)
\* BA_\s+"([^"]+)"\s+([^;]+);
BaMatch(line) ==
    line.kw = "BA_" /\ Len(line.f) = 2 /\ line.f[1] # "" /\ line.f[2] # ""

\* the literals int() accepts: an optional sign and decimal digits
\* (literals with '_' between digits are not modelled)
IntLiteral(s) ==
    \/ ReDigits(s)
    \/ Len(s) >= 2 /\ Char(s, 1) \in {"+", "-"} /\ ReDigits(SubSeq(s, 2, Len(s)))

\* int(msg_id) raises ValueError
BaRaises(rest) ==
    LET parts == split_max(rest, 3)
        msg_id == IF Len(parts) > 1 THEN parts[2] ELSE ""
    IN  startswith(rest, "SG_") /\ ~ IntLiteral(msg_id)

\* BaSgScopeId with the extended flag left in the ID
BaSgScopeId_FlagKept(msg_id, sig_name) ==
    LET signed == Char(msg_id, 1) \in {"+", "-"}
        digits == IF signed THEN SubSeq(msg_id, 2, Len(msg_id)) ELSE msg_id
        raw == int_id(digits)
        id_text == IF Char(msg_id, 1) = "-"
                   THEN (IF raw = Big(0, 0) THEN "0" ELSE "-" \o BigStr(raw))
                   ELSE BigStr(raw)
    IN  id_text \o ":" \o sig_name

\* scope_id of the SG_ branch: f"{msg_id_int}:{sig_name}"
BaSgScopeId(msg_id, sig_name) ==
    LET signed == Char(msg_id, 1) \in {"+", "-"}
        digits == IF signed THEN SubSeq(msg_id, 2, Len(msg_id)) ELSE msg_id
        raw == int_id(digits)
        id_text == IF Char(msg_id, 1) = "-"
                   THEN (IF raw = Big(0, 0) THEN "0" ELSE "-" \o BigStr(raw))
                   ELSE BigStr(IF BigGE(raw, EXT_FLAG) THEN BigSub(raw, EXT_FLAG) ELSE raw)
    IN  id_text \o ":" \o sig_name

\* scope_id of the BU_, BO_ and EV_ branches: parts[1]
BaPlainScopeId(parts) == IF Len(parts) > 1 THEN parts[2] ELSE ""

\* the tuple appended for one match whose int() does not raise
BaRecord(attr_name, rest) ==
    LET p2 == split_max(rest, 2)
        p3 == split_max(rest, 3)
        plain(sc) == [scope |-> sc, scope_id |-> BaPlainScopeId(p2),
                      value |-> IF Len(p2) > 2 THEN p2[3] ELSE ""]
        r == IF startswith(rest, "BU_") THEN plain("BU")
             ELSE IF startswith(rest, "BO_") THEN plain("BO")
             ELSE IF startswith(rest, "SG_")
                  THEN [scope |-> "SG",
                        scope_id |-> BaSgScopeId(IF Len(p3) > 1 THEN p3[2] ELSE "",
                                                 IF Len(p3) > 2 THEN p3[3] ELSE ""),
                        value |-> IF Len(p3) > 3 THEN p3[4] ELSE ""]
             ELSE IF startswith(rest, "EV_") THEN plain("EV")
             ELSE [scope |-> "GLOBAL", scope_id |-> "", value |-> rest]
    IN  [scope |-> r.scope, scope_id |-> r.scope_id, attr_name |-> attr_name,
         value |-> strip(strip(r.value, " "), "\"")]

\* the loop over the matches; it stops at the first entry that raises
RECURSIVE parse_ba_assignments(_, _, _)
parse_ba_assignments(c, i, recs) ==
    IF i > Len(c) THEN [recs |-> recs, raised |-> FALSE]
    ELSE IF BaMatch(c[i])
         THEN IF BaRaises(strip(c[i].f[2], " "))
              THEN [recs |-> recs, raised |-> TRUE]
              ELSE parse_ba_assignments(c, i + 1,
                      Append(recs, BaRecord(c[i].f[1], strip(c[i].f[2], " "))))
         ELSE parse_ba_assignments(c, i + 1, recs)

(***************************************************************************)
(* _parse_extra_transmitters, _parse_env_vars, _parse_signal_value_types   *)
(***************************************************************************)
\* BO_TX_BU_\s+(\d+)\s*:\s*([^;]+);
ExtraTxMatch(line) ==
    line.kw = "BO_TX_BU_" /\ Len(line.f) = 2 /\ ReDigits(line.f[1]) /\ line.f[2] # ""

ExtraTxKey(line) ==
    LET msg_id_raw == int_id(line.f[1])
    IN  IF BigGE(msg_id_raw, EXT_FLAG) THEN BigSub(msg_id_raw, EXT_FLAG) ELSE msg_id_raw

RECURSIVE parse_extra_transmitters(_, _, _)
parse_extra_transmitters(c, i, d) ==
    IF i > Len(c) THEN d
    ELSE IF ExtraTxMatch(c[i])
         THEN parse_extra_transmitters(c, i + 1,
                  Put(d, ExtraTxKey(c[i]), split_list(strip(c[i].f[2], " "))))
         ELSE parse_extra_transmitters(c, i + 1, d)

\* EV_\s+(\S+)\s*:\s*(\d+)\s*\[([^|]+)\|([^\]]+)\]\s*"([^"]*)"\s+(\S+)\s+(\d+)\s+(\S+)\s+(.+?);
EnvVarMatch(line) ==
    /\ line.kw = "EV_" /\ Len(line.f) = 9
    /\ ReDigits(line.f[2]) /\ ReDigits(line.f[7]) /\ line.f[9] # ""

EnvVarRecord(line) ==
    LET f == line.f IN
    [name |-> f[1], type |-> f[2], min |-> strip(f[3], " "), max |-> strip(f[4], " "),
     unit |-> f[5], default |-> f[6], access |-> f[7], nodes |-> strip(f[9], " "),
     comment |-> ""]

RECURSIVE parse_env_vars(_, _)
parse_env_vars(c, i) ==
    IF i > Len(c) THEN <<>>
    ELSE IF EnvVarMatch(c[i]) THEN <<EnvVarRecord(c[i])>> \o parse_env_vars(c, i + 1)
    ELSE parse_env_vars(c, i + 1)

\* SIG_VALTYPE_\s+(\d+)\s+(\S+)\s*:\s*(\d+)\s*;
SigValTypeMatch(line) ==
    /\ line.kw = "SIG_VALTYPE_" /\ Len(line.f) = 3
    /\ ReDigits(line.f[1]) /\ ReDigits(line.f[3])

SigValTypeKey(line) ==
    LET msg_id_raw == int_id(line.f[1])
        msg_id == IF BigGE(msg_id_raw, EXT_FLAG)
                  THEN BigSub(msg_id_raw, EXT_FLAG) ELSE msg_id_raw
    IN  <<msg_id, line.f[2]>>

RECURSIVE parse_signal_value_types(_, _, _)
parse_signal_value_types(c, i, d) ==
    IF i > Len(c) THEN d
    ELSE IF SigValTypeMatch(c[i])
         THEN parse_signal_value_types(c, i + 1,
                  Put(d, SigValTypeKey(c[i]), int(c[i].f[3])))
         ELSE parse_signal_value_types(c, i + 1, d)

(***************************************************************************)
(* create_excel_from_dbc: the Values column of the ValueTables sheet       *)
(***************************************************************************)
\* sorted(values.items()): the keys in ascending order
RECURSIVE SortedKeys(_)
SortedKeys(ks) ==
    IF ks = {} THEN <<>>
    ELSE LET m == CHOOSE x \in ks : \A y \in ks : x <= y
         IN  <<m>> \o SortedKeys(ks \ {m})

\* f'{k}:"{v}"'
FormatPair(k, v) == IntStr(k) \o ":\"" \o v \o "\""

\* ' '.join([f'{k}:"{v}"' for k, v in sorted(values.items())])
FormatPairs(values) ==
    LET ks == SortedKeys(DOMAIN values)
    IN  join(" ", [j \in 1..Len(ks) |-> FormatPair(ks[j], values[ks[j]])])

(***************************************************************************)
(* Input texts                                                             *)
(***************************************************************************)
MaxDecls == 4
MaxTail == 2
MaxVal == 3
MaxPairs == 3
MaxAttr == 2

SeqsUpTo(S, n) == UNION {[1..m -> S] : m \in 0..n}

Blank == L("", <<>>)
NodesNone == L("BU_:", <<"">>)
NodesOne == L("BU_:", <<"ECU1">>)
NodesDup == L("BU_:", <<"ECU1 ECU2 ECU1">>)

Msg1 == L("BO_", <<"100", "Msg1", "8", "ECU1">>)
Msg2 == L("BO_", <<"200", "Msg2", "8", "ECU2">>)
MsgExt == L("BO_", <<"2147483748", "MsgX", "8", "ECU1">>)
MsgFlag == L("BO_", <<"2147483648", "Msg0", "4", "ECU2">>)
MsgTop == L("BO_", <<"2147483647", "MsgT", "2", "ECU2">>)

SigA == L("SG_", <<"SigA", "", "0", "8", "1", "+", "1", "0", "0", "255", "", "ECU1">>)
SigB == L("SG_", <<"SigB", "m1", "8", "16", "0", "-", "0.5", "-40", "0", "100",
                   "km/h", "ECU1,ECU2">>)

DeclLines == {Msg1, Msg2, MsgExt, MsgFlag, MsgTop, SigA, SigB}

TailLines == {Blank, Msg1, SigA, L("BU_:", <<"ECU2">>)}

ValLines ==
    { L("VAL_TABLE_", <<"Tbl", "0", "\"Off\"", "1", "\"On\"">>),
      L("VAL_TABLE_", <<"Tbl", "1", "\"x\"", "-1", "\"neg\"", "01", "\"y\"">>),
      L("VAL_", <<"100", "SigA", "0", "\"Off\"", "1", "\"On\"">>),
      L("VAL_", <<"2147483748", "SigA", "1", "\"One\"">>),
      L("VAL_", <<"0200", "SigB", "2", "\"Two\"">>),
      L("VAL_", <<"EnvA", "0", "\"a\"", "1", "\"b\"">>),
      L("VAL_", <<"12ab", "3", "\"c\"">>) }

PairKeys == {"0", "1", "-1", "01"}
PairStrings == {"\"Off\"", "\"On\""}

RECURSIVE Flatten(_)
Flatten(ps) == IF ps = <<>> THEN <<>> ELSE Head(ps) \o Flatten(Tail(ps))

TableLines ==
    { L("VAL_TABLE_", <<"Tbl">> \o Flatten(ps)) :
        ps \in UNION {[1..m -> {<<k, v>> : k \in PairKeys, v \in PairStrings}]
                        : m \in 1..MaxPairs} }

BaSgExt == L("BA_", <<"Prop", "SG_ 2147483748 SigA 5">>)
BaSgBad == L("BA_", <<"Prop", "SG_ abc SigA 5">>)
BaSgNoId == L("BA_", <<"Prop", "SG_">>)
BaBoExt == L("BA_", <<"Prio", "BO_ 2147483748 7">>)

AttrLines ==
    { BaSgExt, BaSgBad, BaSgNoId, BaBoExt,
      L("BA_", <<"Prop", "SG_ 100 SigB \"x y\"">>),
      L("BA_", <<"BusType", "\"CAN\"">>),
      L("BA_", <<"Owner", "BU_ ECU1 3">>),
      L("BA_", <<"Init", "EV_ EnvA 1">>),
      L("BA_DEF_", <<"BO_", "Prio", "INT", "0 10">>),
      L("BA_DEF_", <<"", "BusType", "ENUM", "\"CAN\",\"LIN\"">>),
      L("BA_DEF_", <<"SG_", "Note", "STRING", "">>),
      L("CM_", <<"BO_", "2147483748", "hello">>),
      L("CM_", <<"SG_", "2147483748", "SigA", "text">>),
      L("CM_", <<"BU_", "ECU1", "node">>),
      L("CM_", <<"EV_", "EnvA", "env">>),
      L("BO_TX_BU_", <<"2147483748", "ECU1,ECU2">>),
      L("EV_", <<"EnvA", "0", "0", "1", "", "0", "1", "DUMMY_NODE_VECTOR0",
                 "Vector__XXX">>),
      L("SIG_VALTYPE_", <<"2147483748", "SigA", "1">>) }

DefTypes == {"INT", "HEX", "FLOAT", "ENUM", "STRING", "Int", "enum"}
DefParams == {"", "0", "0 10", "0.5 1.5 9", "\"CAN\",\"LIN\"", "\"a\",  \"b\" "}

DefLines ==
    { L("BA_DEF_", <<sc, "Attr", ty, pa>>) :
        sc \in {"", "SG_"}, ty \in DefTypes, pa \in DefParams }

Inputs ==
    SeqsUpTo(DeclLines, MaxDecls)
    \cup {h \o t : h \in {<<>>, <<NodesNone>>, <<NodesOne>>, <<NodesDup>>},
                   t \in SeqsUpTo(TailLines, MaxTail)}
    \cup SeqsUpTo(ValLines, MaxVal)
    \cup {<<t>> : t \in TableLines}
    \cup SeqsUpTo(AttrLines, MaxAttr)
    \cup {<<d>> : d \in DefLines}

(***************************************************************************)
(* DbcParser.__init__, DbcParser.parse, create_excel_from_dbc              *)
(***************************************************************************)
Init ==
    /\ content \in Inputs
    /\ pc = "nodes"
    /\ nodes = <<>>
    /\ messages = <<>>
    /\ signals = EmptyDict
    /\ value_tables = EmptyDict
    /\ signal_value_tables = EmptyDict
    /\ env_var_value_tables = EmptyDict
    /\ comments = <<>>
    /\ ba_defs = <<>>
    /\ ba_assignments = <<>>
    /\ extra_transmitters = EmptyDict
    /\ env_vars = <<>>
    /\ signal_value_types = EmptyDict
    /\ value_table_rows = EmptyDict

ParseNodes ==
    /\ pc = "nodes"
    /\ nodes' = parse_nodes(content)
    /\ pc' = "value_tables"
    /\ UNCHANGED <<content, messages, signals, value_tables, signal_value_tables,
                   env_var_value_tables, comments, ba_defs, ba_assignments,
                   extra_transmitters, env_vars, signal_value_types, value_table_rows>>

ParseValueTables ==
    /\ pc = "value_tables"
    /\ value_tables' = parse_value_tables(content, 1, value_tables)
    /\ pc' = "messages_and_signals"
    /\ UNCHANGED <<content, nodes, messages, signals, signal_value_tables,
                   env_var_value_tables, comments, ba_defs, ba_assignments,
                   extra_transmitters, env_vars, signal_value_types, value_table_rows>>

ParseMessagesAndSignals ==
    /\ pc = "messages_and_signals"
    /\ messages' = messages \o parse_messages(content, 1)
    /\ signals' = parse_signals(content, 1, EmptySignalLists(messages'))
    /\ pc' = "signal_val_entries"
    /\ UNCHANGED <<content, nodes, value_tables, signal_value_tables,
                   env_var_value_tables, comments, ba_defs, ba_assignments,
                   extra_transmitters, env_vars, signal_value_types, value_table_rows>>

ParseSignalValEntries ==
    /\ pc = "signal_val_entries"
    /\ signal_value_tables' = parse_signal_val_entries(content, 1, signal_value_tables)
    /\ pc' = "env_var_val_entries"
    /\ UNCHANGED <<content, nodes, messages, signals, value_tables,
                   env_var_value_tables, comments, ba_defs, ba_assignments,
                   extra_transmitters, env_vars, signal_value_types, value_table_rows>>

ParseEnvVarValEntries ==
    /\ pc = "env_var_val_entries"
    /\ env_var_value_tables' = parse_env_var_val_entries(content, 1, env_var_value_tables)
    /\ pc' = "comments"
    /\ UNCHANGED <<content, nodes, messages, signals, value_tables,
                   signal_value_tables, comments, ba_defs, ba_assignments,
                   extra_transmitters, env_vars, signal_value_types, value_table_rows>>

ParseComments ==
    /\ pc = "comments"
    /\ comments' = comments \o parse_comments(content)
    /\ pc' = "ba_defs"
    /\ UNCHANGED <<content, nodes, messages, signals, value_tables,
                   signal_value_tables, env_var_value_tables, ba_defs, ba_assignments,
                   extra_transmitters, env_vars, signal_value_types, value_table_rows>>

ParseBaDefs ==
    /\ pc = "ba_defs"
    /\ ba_defs' = ba_defs \o parse_ba_defs(content, 1)
    /\ pc' = "ba_assignments"
    /\ UNCHANGED <<content, nodes, messages, signals, value_tables,
                   signal_value_tables, env_var_value_tables, comments, ba_assignments,
                   extra_transmitters, env_vars, signal_value_types, value_table_rows>>

\* a ValueError leaves parse(): the passes after it do not run
ParseBaAssignments ==
    /\ pc = "ba_assignments"
    /\ LET r == parse_ba_assignments(content, 1, ba_assignments)
       IN  /\ ba_assignments' = r.recs
           /\ pc' = IF r.raised THEN "failed" ELSE "extra_transmitters"
    /\ UNCHANGED <<content, nodes, messages, signals, value_tables,
                   signal_value_tables, env_var_value_tables, comments, ba_defs,
                   extra_transmitters, env_vars, signal_value_types, value_table_rows>>

ParseExtraTransmitters ==
    /\ pc = "extra_transmitters"
    /\ extra_transmitters' = parse_extra_transmitters(content, 1, extra_transmitters)
    /\ pc' = "env_vars"
    /\ UNCHANGED <<content, nodes, messages, signals, value_tables,
                   signal_value_tables, env_var_value_tables, comments, ba_defs,
                   ba_assignments, env_vars, signal_value_types, value_table_rows>>

ParseEnvVars ==
    /\ pc = "env_vars"
    /\ env_vars' = env_vars \o parse_env_vars(content, 1)
    /\ pc' = "signal_value_types"
    /\ UNCHANGED <<content, nodes, messages, signals, value_tables,
                   signal_value_tables, env_var_value_tables, comments, ba_defs,
                   ba_assignments, extra_transmitters, signal_value_types,
                   value_table_rows>>

ParseSignalValueTypes ==
    /\ pc = "signal_value_types"
    /\ signal_value_types' = parse_signal_value_types(content, 1, signal_value_types)
    /\ pc' = "parsed"
    /\ UNCHANGED <<content, nodes, messages, signals, value_tables,
                   signal_value_tables, env_var_value_tables, comments, ba_defs,
                   ba_assignments, extra_transmitters, env_vars, value_table_rows>>

\* the rows of the ValueTables sheet, by table name
WriteValueTables ==
    /\ pc = "parsed"
    /\ value_table_rows' = [t \in DOMAIN value_tables |-> FormatPairs(value_tables[t])]
    /\ pc' = "written"
    /\ UNCHANGED <<content, nodes, messages, signals, value_tables,
                   signal_value_tables, env_var_value_tables, comments, ba_defs,
                   ba_assignments, extra_transmitters, env_vars, signal_value_types>>

Next ==
    \/ ParseNodes
    \/ ParseValueTables
    \/ ParseMessagesAndSignals
    \/ ParseSignalValEntries
    \/ ParseEnvVarValEntries
    \/ ParseComments
    \/ ParseBaDefs
    \/ ParseBaAssignments
    \/ ParseExtraTransmitters
    \/ ParseEnvVars
    \/ ParseSignalValueTypes
    \/ WriteValueTables

Spec == Init /\ [][Next]_vars

(***************************************************************************)
(* Vocabulary of the properties                                            *)
(***************************************************************************)
PassOrder == <<"nodes", "value_tables", "messages_and_signals", "signal_val_entries",
               "env_var_val_entries", "comments", "ba_defs", "ba_assignments",
               "extra_transmitters", "env_vars", "signal_value_types", "parsed",
               "written">>

Pos(p) == CHOOSE j \in 1..Len(PassOrder) : PassOrder[j] = p

\* the pass named p has run to its end
Ran(p) == IF pc = "failed" THEN Pos(p) < Pos("ba_assignments") ELSE Pos(p) < Pos(pc)

\* parse() has returned normally
Parsed == pc \in {"parsed", "written"}

\* section 4.1: the true ID of a raw ID
NormalizedId(raw) == IF BigGE(raw, EXT_FLAG) THEN BigSub(raw, EXT_FLAG) ELSE raw

Lines(P(_)) == {i \in 1..Len(content) : P(content[i])}

\* the whitespace-separated words of the text after the attribute name
BaWords(line) == split(line.f[2])

IsBaScoped(line, tag) == BaMatch(line) /\ BaWords(line)[1] = tag

\* C1: every message ID stored in the model (map key, record field, or part
\* of a scope or target identifier) is the normalized ID of the raw ID in
\* the text: messages, signal lists, VAL_, CM_ BO_/SG_, BA_ BO_/SG_,
\* BO_TX_BU_ and SIG_VALTYPE_.
C1_NormalizedEverywhere ==
    /\ Ran("messages_and_signals") =>
          /\ {messages[j].id : j \in 1..Len(messages)}
                = {NormalizedId(int_id(content[i].f[1])) : i \in Lines(MsgMatch)}
          /\ DOMAIN signals
                = {NormalizedId(int_id(content[i].f[1])) : i \in Lines(MsgMatch)}
          /\ \A k \in DOMAIN signals :
                \A j \in 1..Len(signals[k]) : signals[k][j].msg_id = k
    /\ Ran("signal_val_entries") =>
          DOMAIN signal_value_tables
             = {<<NormalizedId(int_id(content[i].f[1])), content[i].f[2]>> :
                   i \in Lines(SigValMatch)}
    /\ Ran("comments") =>
          /\ {comments[j].scope : j \in {n \in 1..Len(comments) : comments[n].type = "BO"}}
                = {BigStr(NormalizedId(int_id(content[i].f[2]))) : i \in Lines(CmBoMatch)}
          /\ {comments[j].scope : j \in {n \in 1..Len(comments) : comments[n].type = "SG"}}
                = {BigStr(NormalizedId(int_id(content[i].f[2]))) \o ":" \o content[i].f[3] :
                      i \in Lines(CmSgMatch)}
    /\ \A j \in 1..Len(ba_assignments) :
          /\ ba_assignments[j].scope = "BO" =>
                \E i \in 1..Len(content) :
                   /\ IsBaScoped(content[i], "BO_")
                   /\ Len(BaWords(content[i])) > 1
                   /\ ReDigits(BaWords(content[i])[2])
                   /\ ba_assignments[j].scope_id
                         = BigStr(NormalizedId(int_id(BaWords(content[i])[2])))
          /\ ba_assignments[j].scope = "SG" =>
                \E i \in 1..Len(content) :
                   /\ IsBaScoped(content[i], "SG_")
                   /\ Len(BaWords(content[i])) > 2
                   /\ ReDigits(BaWords(content[i])[2])
                   /\ ba_assignments[j].scope_id
                         = BigStr(NormalizedId(int_id(BaWords(content[i])[2])))
                              \o ":" \o BaWords(content[i])[3]
    /\ Ran("extra_transmitters") =>
          DOMAIN extra_transmitters
             = {NormalizedId(int_id(content[i].f[1])) : i \in Lines(ExtraTxMatch)}
    /\ Ran("signal_value_types") =>
          DOMAIN signal_value_types
             = {<<NormalizedId(int_id(content[i].f[1])), content[i].f[2]>> :
                   i \in Lines(SigValTypeMatch)}

\* the position-sorted merge of the two declaration streams: one pass over
\* the text that carries the ID of the message declared last
RECURSIVE MergeAssociate(_, _, _, _)
MergeAssociate(c, i, cur, lists) ==
    IF i > Len(c) THEN lists
    ELSE IF MsgMatch(c[i])
         THEN LET k == NormalizedId(int_id(c[i].f[1]))
              IN  MergeAssociate(c, i + 1, <<k>>,
                     IF k \in DOMAIN lists THEN lists ELSE Put(lists, k, <<>>))
         ELSE IF SigMatch(c[i]) /\ cur # <<>>
              THEN MergeAssociate(c, i + 1, cur,
                      Put(lists, cur[1], Append(lists[cur[1]], SignalRecord(c[i], cur[1]))))
              ELSE MergeAssociate(c, i + 1, cur, lists)

\* the index of the latest message declaration before line i, 0 if none
NearestMsg(i) ==
    IF \E j \in 1..(i - 1) : MsgMatch(content[j])
    THEN CHOOSE j \in 1..(i - 1) :
            MsgMatch(content[j]) /\ \A n \in (j + 1)..(i - 1) : ~ MsgMatch(content[n])
    ELSE 0

RECURSIVE SumLen(_, _)
SumLen(d, ks) ==
    IF ks = {} THEN 0
    ELSE LET k == CHOOSE x \in ks : TRUE IN Len(d[k]) + SumLen(d, ks \ {k})

\* C2: a signal with a message declaration before it is stored in the list
\* of the message declared latest before it, as a position-sorted merge of
\* the declarations gives, and in no other list.
C2_NearestPrecedingMessage ==
    Ran("messages_and_signals") =>
       /\ signals = MergeAssociate(content, 1, <<>>, EmptyDict)
       /\ \A i \in Lines(SigMatch) :
             NearestMsg(i) # 0 =>
                LET k == NormalizedId(int_id(content[NearestMsg(i)].f[1]))
                IN  /\ \E j \in 1..Len(signals[k]) :
                          signals[k][j] = SignalRecord(content[i], k)
                    /\ \A k2 \in DOMAIN signals \ {k} :
                          \A j \in 1..Len(signals[k2]) :
                             signals[k2][j] # SignalRecord(content[i], k)
       /\ SumLen(signals, DOMAIN signals)
             = Cardinality({i \in Lines(SigMatch) : NearestMsg(i) # 0})

\* two messages with different IDs, then a signal: it is in the later list
C2_Witness ==
    /\ Ran("messages_and_signals")
    /\ \E i, j, n \in 1..Len(content) :
          /\ i < j /\ j < n
          /\ MsgMatch(content[i]) /\ MsgMatch(content[j]) /\ SigMatch(content[n])
          /\ NearestMsg(n) = j
          /\ messages[1].id # messages[2].id
          /\ Len(messages) = 2
          /\ signals[messages[2].id] # <<>>
          /\ signals[messages[1].id] = <<>>

\* C3: a message declared with raw >= 0x80000000 is recorded with
\* id = raw - 0x80000000 and is_extended true, one declared with
\* raw < 0x80000000 with id = raw and is_extended false.
C3_ExtendedIdSplit ==
    Ran("messages_and_signals") =>
       LET decls == SelectSeq(content, MsgMatch)
       IN  /\ Len(messages) = Len(decls)
           /\ \A j \in 1..Len(decls) :
                 LET raw == int_id(decls[j].f[1])
                 IN  IF BigGE(raw, EXT_FLAG)
                     THEN /\ BigAdd(messages[j].id, EXT_FLAG) = raw
                          /\ messages[j].is_extended = TRUE
                     ELSE /\ messages[j].id = raw
                          /\ messages[j].is_extended = FALSE

\* a message at exactly 0x80000000 and one just below it are both recorded
C3_Witness ==
    /\ Ran("messages_and_signals")
    /\ \E i, j \in 1..Len(messages) :
          /\ messages[i].is_extended /\ messages[i].id = Big(0, 0)
          /\ ~ messages[j].is_extended /\ messages[j].id = Big(2 ^ 15 - 1, 2 ^ 16 - 1)

\* the text holds the assignment BA_ "Prop" SG_ 2147483748 SigA 5; and no
\* other BA_ entry
OnlyBaSgExt ==
    /\ \E i \in 1..Len(content) : content[i] = BaSgExt
    /\ \A i \in 1..Len(content) : content[i].kw = "BA_" => content[i] = BaSgExt
    /\ Cardinality({i \in 1..Len(content) : content[i] = BaSgExt}) = 1

\* C4 as stated: BA_ "Prop" SG_ 2147483748 SigA 5; gives exactly one record
\* with scope "SG", scope-identifier "4:SigA", name "Prop" and value "5".
C4_AsStated ==
    (OnlyBaSgExt /\ Ran("ba_assignments")) =>
       ba_assignments = <<[scope |-> "SG", scope_id |-> "4:SigA",
                           attr_name |-> "Prop", value |-> "5"]>>

\* C4 (amended): BA_ "Prop" SG_ 2147483748 SigA 5; gives exactly one record
\* with scope "SG", scope-identifier "100:SigA" (2147483748 is 0x80000064),
\* name "Prop" and value "5".
C4_ScopeIdIs100 ==
    (OnlyBaSgExt /\ Ran("ba_assignments")) =>
       ba_assignments = <<[scope |-> "SG", scope_id |-> "100:SigA",
                           attr_name |-> "Prop", value |-> "5"]>>

C4_Witness ==
    /\ content = <<BaSgExt>> /\ pc = "written" /\ Len(ba_assignments) = 1

\* the (key, string) pairs of a value-table declaration, as integers and
\* unquoted strings, in declared order
DeclaredPairs(line) ==
    [j \in 1..((Len(line.f) - 1) \div 2) |->
        [key |-> int(line.f[2 * j]),
         str |-> SubSeq(line.f[2 * j + 1], 2, Len(line.f[2 * j + 1]) - 1)]]

\* the last declaration of table t in the text
LastDecl(t) ==
    content[CHOOSE i \in 1..Len(content) :
               /\ content[i].kw = "VAL_TABLE_" /\ content[i].f[1] = t
               /\ \A n \in (i + 1)..Len(content) :
                     ~ (content[n].kw = "VAL_TABLE_" /\ content[n].f[1] = t)]

\* C5: the formatted row of a value table holds one key:"string" pair per
\* distinct integer key of the declaration, negative keys included, in
\* ascending key order, each key with the string of its last occurrence; a
\* declaration with distinct ascending keys is formatted pair by pair in the
\* declared order.
C5_ParseFormatRoundTrip ==
    pc = "written" =>
       /\ DOMAIN value_table_rows
             = {content[i].f[1] : i \in {n \in 1..Len(content) : content[n].kw = "VAL_TABLE_"}}
       /\ \A t \in DOMAIN value_table_rows :
             LET ps == DeclaredPairs(LastDecl(t))
                 keys == {ps[j].key : j \in 1..Len(ps)}
                 last(k) == ps[CHOOSE j \in 1..Len(ps) :
                                  ps[j].key = k /\ \A n \in (j + 1)..Len(ps) : ps[n].key # k].str
                 ascending == \A j \in 1..(Len(ps) - 1) : ps[j].key < ps[j + 1].key
             IN  /\ \E out \in [1..Cardinality(keys) -> keys] :
                       /\ \A a, b \in 1..Cardinality(keys) : a < b => out[a] < out[b]
                       /\ value_table_rows[t]
                             = join(" ", [j \in 1..Cardinality(keys) |->
                                             IntStr(out[j]) \o ":\"" \o last(out[j]) \o "\""])
                 /\ ascending =>
                       value_table_rows[t]
                          = join(" ", [j \in 1..Len(ps) |->
                                          IntStr(ps[j].key) \o ":\"" \o ps[j].str \o "\""])

\* a declaration with a negative key, a repeated key and descending keys
C5_Witness ==
    /\ pc = "written"
    /\ \E i \in 1..Len(content) :
          /\ content[i].kw = "VAL_TABLE_"
          /\ content[i].f = <<"Tbl", "1", "\"Off\"", "-1", "\"On\"", "01", "\"On\"">>
    /\ "Tbl" \in DOMAIN value_table_rows
    /\ value_table_rows["Tbl"] = "-1:\"On\" 1:\"On\""

MinimalDbc == <<NodesOne, Msg1, SigA>>

\* C6: the minimal text (node ECU1, BO_ 100 Msg1: 8 ECU1, one signal SigA)
\* parses to nodes ["ECU1"], one message, one signal under 100, and empty
\* extra transmitters, environment variables, attribute definitions,
\* attribute assignments and comments.
C6_MinimalDbc ==
    (content = MinimalDbc /\ Parsed) =>
       /\ nodes = <<"ECU1">>
       /\ Len(messages) = 1
       /\ BigStr(messages[1].id) = "100"
       /\ messages[1].id_hex = "0x64"
       /\ messages[1].name = "Msg1"
       /\ messages[1].dlc = 8
       /\ messages[1].transmitter = "ECU1"
       /\ messages[1].is_extended = FALSE
       /\ DOMAIN signals = {messages[1].id}
       /\ Len(signals[messages[1].id]) = 1
       /\ LET sig == signals[messages[1].id][1]
          IN  /\ sig.name = "SigA" /\ sig.start_bit = 0 /\ sig.length = 8
              /\ sig.byte_order_sign = "@1+" /\ sig.factor_offset = "(1,0)"
              /\ sig.min_max = "[0|255]" /\ sig.unit = "" /\ sig.receivers = "ECU1"
       /\ extra_transmitters = EmptyDict
       /\ env_vars = <<>>
       /\ ba_defs = <<>>
       /\ ba_assignments = <<>>
       /\ comments = <<>>

C6_Witness ==
    /\ content = MinimalDbc /\ pc = "parsed"
    /\ LineText(content[1]) = "BU_: ECU1"
    /\ LineText(content[2]) = "BO_ 100 Msg1: 8 ECU1"
    /\ LineText(content[3]) = " SG_ SigA : 0|8@1+ (1,0) [0|255] \"\" ECU1"

\* C7: a malformed entry never aborts parsing: with a BA_ SG_ entry whose
\* message-ID token is missing or not numeric, the other BA_ entries are
\* still recorded and the extractors after the attribute assignments still
\* fill their collections.
C7_MalformedNeverAborts ==
    /\ pc # "failed"
    /\ Parsed =>
          /\ \A i \in Lines(BaMatch) :
                ~ BaRaises(content[i].f[2]) =>
                   \E j \in 1..Len(ba_assignments) :
                      ba_assignments[j] = BaRecord(content[i].f[1], content[i].f[2])
          /\ DOMAIN extra_transmitters
                = {NormalizedId(int_id(content[i].f[1])) : i \in Lines(ExtraTxMatch)}
          /\ Len(env_vars) = Cardinality(Lines(EnvVarMatch))
          /\ DOMAIN signal_value_types
                = {<<NormalizedId(int_id(content[i].f[1])), content[i].f[2]>> :
                      i \in Lines(SigValTypeMatch)}

\* C8: the node list is empty when the BU_: line carries no names, whatever
\* follows on later lines, and when the line is absent; otherwise it is the
\* whitespace-separated names of that line, in order, duplicates kept.
C8_NodesOfOneLine ==
    Ran("nodes") =>
       nodes = IF \E i \in 1..Len(content) : content[i].kw = "BU_:"
               THEN split(content[CHOOSE i \in 1..Len(content) :
                                     /\ content[i].kw = "BU_:"
                                     /\ \A n \in 1..(i - 1) : content[n].kw # "BU_:"].f[1])
               ELSE <<>>

\* C9: a signal with no message declaration before it is stored in no list
\* and raises no error; the later signals that have a preceding message are
\* stored and all messages are recorded.
C9_OrphanSignalDropped ==
    Ran("messages_and_signals") =>
       /\ pc = "failed" => \E i \in Lines(BaMatch) : BaRaises(content[i].f[2])
       /\ Len(messages) = Cardinality(Lines(MsgMatch))
       /\ (\A i \in Lines(SigMatch) : NearestMsg(i) = 0) =>
             \A k \in DOMAIN signals : signals[k] = <<>>
       /\ SumLen(signals, DOMAIN signals)
             = Cardinality({i \in Lines(SigMatch) : NearestMsg(i) # 0})
       /\ \A i \in Lines(SigMatch) :
             NearestMsg(i) # 0 =>
                \E k \in DOMAIN signals : \E j \in 1..Len(signals[k]) :
                   signals[k][j].name = content[i].f[1]

\* an orphan signal first, then a message and a signal that is stored
C9_Witness ==
    /\ pc = "parsed"
    /\ Len(content) >= 3
    /\ SigMatch(content[1]) /\ MsgMatch(content[2]) /\ SigMatch(content[3])
    /\ content[1].f[1] # content[3].f[1]
    /\ \A k \in DOMAIN signals : \A j \in 1..Len(signals[k]) :
          signals[k][j].name # content[1].f[1]
    /\ \E k \in DOMAIN signals : signals[k] # <<>>

\* a decimal number, as the text has it
IsDecimalNumber(tok) ==
    tok # "" /\ \A i \in 1..Len(tok) : \E d \in 0..9 : Char(tok, i) = NatStr(d)

\* C10: a VAL_ entry whose first token is a decimal number is stored under
\* (normalized ID, signal name) in the signal map and not in the
\* environment-variable map; one whose first token is not numeric is stored
\* under that token in the environment-variable map and not in the signal
\* map.
C10_ValEntryInOneMap ==
    Ran("env_var_val_entries") =>
       LET vals == {i \in 1..Len(content) : content[i].kw = "VAL_"}
           num == {i \in vals : IsDecimalNumber(content[i].f[1])}
       IN  /\ DOMAIN signal_value_tables
                 = {<<NormalizedId(int_id(content[i].f[1])), content[i].f[2]>> : i \in num}
           /\ DOMAIN env_var_value_tables = {content[i].f[1] : i \in vals \ num}
           /\ \A i \in num : content[i].f[1] \notin DOMAIN env_var_value_tables
           /\ \A i \in vals \ num :
                 \A k \in DOMAIN signal_value_tables : k[2] # content[i].f[1]

\* a numeric entry, an entry named by a word and one named 12ab, all stored
C10_Witness ==
    /\ Ran("env_var_val_entries")
    /\ Len(content) = 3
    /\ DOMAIN env_var_value_tables = {"EnvA", "12ab"}
    /\ DOMAIN signal_value_tables = {<<Big(0, 100), "SigA">>}

\* the type token of a definition, compared without regard to case
DefTypeIs(line, names) == upper(line.f[3]) \in names

\* the parameter text of a definition between its first and last character
\* that is not a blank, and its whitespace-separated parameters
DefParamText(line) == strip(line.f[4], " ")

DefParamList(line) == split(line.f[4])

\* C12 as stated: the type token alone decides which fields are filled: for
\* Int, Hex or Float the first two parameters become min and max and the
\* enumeration list is empty; for Enum the whole parameter text is the
\* enumeration list and min and max are empty; for any other type all three
\* are empty.
C12_AsStated ==
    Ran("ba_defs") =>
       LET decls == SelectSeq(content, BaDefMatch)
       IN  /\ Len(ba_defs) = Len(decls)
           /\ \A j \in 1..Len(decls) :
                 LET ps == DefParamList(decls[j])
                 IN  IF DefTypeIs(decls[j], {"INT", "HEX", "FLOAT"})
                     THEN /\ ba_defs[j].min = (IF Len(ps) >= 1 THEN ps[1] ELSE "")
                          /\ ba_defs[j].max = (IF Len(ps) >= 2 THEN ps[2] ELSE "")
                          /\ ba_defs[j].enum_vals = ""
                     ELSE IF DefTypeIs(decls[j], {"ENUM"})
                     THEN /\ ba_defs[j].enum_vals = DefParamText(decls[j])
                          /\ ba_defs[j].min = "" /\ ba_defs[j].max = ""
                     ELSE /\ ba_defs[j].min = "" /\ ba_defs[j].max = ""
                          /\ ba_defs[j].enum_vals = ""

\* C12 (amended): for Int, Hex or Float with at least two parameters the
\* first two become min and max, with fewer than two min and max are both
\* empty, and the enumeration list is empty; for Enum the whole parameter
\* text is the enumeration list and min and max are empty; for any other
\* type all three are empty.
C12_TypeAndParameterCount ==
    Ran("ba_defs") =>
       LET decls == SelectSeq(content, BaDefMatch)
       IN  /\ Len(ba_defs) = Len(decls)
           /\ \A j \in 1..Len(decls) :
                 LET ps == DefParamList(decls[j])
                 IN  IF DefTypeIs(decls[j], {"INT", "HEX", "FLOAT"})
                     THEN /\ ba_defs[j].min = (IF Len(ps) >= 2 THEN ps[1] ELSE "")
                          /\ ba_defs[j].max = (IF Len(ps) >= 2 THEN ps[2] ELSE "")
                          /\ ba_defs[j].enum_vals = ""
                     ELSE IF DefTypeIs(decls[j], {"ENUM"})
                     THEN /\ ba_defs[j].enum_vals = DefParamText(decls[j])
                          /\ ba_defs[j].min = "" /\ ba_defs[j].max = ""
                     ELSE /\ ba_defs[j].min = "" /\ ba_defs[j].max = ""
                          /\ ba_defs[j].enum_vals = ""

\* an Int definition with one parameter has been recorded
C12_Witness ==
    /\ pc = "parsed"
    /\ Len(ba_defs) = 1
    /\ content[1].f[3] = "Int" /\ content[1].f[4] = "0"
    /\ ba_defs[1].type = "INT" /\ ba_defs[1].min = "" /\ ba_defs[1].max = ""

(***************************************************************************)
(* The passes of parse() taken in any order                                *)
(*                                                                         *)
(* In this specification pc is the set of the passes that have run; a      *)
(* ValueError adds "failed" to it and no pass runs after that.             *)
(***************************************************************************)
MaxOrderLines == 1

PassNames == {PassOrder[j] : j \in 1..11}

BoTxExt == L("BO_TX_BU_", <<"2147483748", "ECU1,ECU2">>)

OrderLines ==
    { NodesOne, Msg1, SigA, BaSgExt, BaSgBad, BoTxExt,
      L("VAL_TABLE_", <<"Tbl", "0", "\"Off\"", "1", "\"On\"">>),
      L("VAL_", <<"100", "SigA", "0", "\"Off\"", "1", "\"On\"">>),
      L("VAL_", <<"EnvA", "0", "\"a\"", "1", "\"b\"">>),
      L("CM_", <<"BO_", "2147483748", "hello">>),
      L("BA_DEF_", <<"BO_", "Prio", "INT", "0 10">>),
      L("EV_", <<"EnvA", "0", "0", "1", "", "0", "1", "DUMMY_NODE_VECTOR0",
                 "Vector__XXX">>),
      L("SIG_VALTYPE_", <<"2147483748", "SigA", "1">>) }

OrderInputs ==
    SeqsUpTo(OrderLines, MaxOrderLines)
    \cup {MinimalDbc, <<Msg1, SigA, BaSgExt, BoTxExt>>, <<BaSgBad, BoTxExt>>,
          <<Msg1, BaSgNoId, SigA>>}

InitAnyOrder ==
    /\ content \in OrderInputs
    /\ pc = {}
    /\ nodes = <<>>
    /\ messages = <<>>
    /\ signals = EmptyDict
    /\ value_tables = EmptyDict
    /\ signal_value_tables = EmptyDict
    /\ env_var_value_tables = EmptyDict
    /\ comments = <<>>
    /\ ba_defs = <<>>
    /\ ba_assignments = <<>>
    /\ extra_transmitters = EmptyDict
    /\ env_vars = <<>>
    /\ signal_value_types = EmptyDict
    /\ value_table_rows = EmptyDict

\* the pass named p is still to run and nothing has raised
MayRun(p) == p \notin pc /\ "failed" \notin pc

AnyOrderNodes ==
    /\ MayRun("nodes")
    /\ nodes' = parse_nodes(content)
    /\ pc' = pc \cup {"nodes"}
    /\ UNCHANGED <<content, messages, signals, value_tables,
                   signal_value_tables, env_var_value_tables, comments,
                   ba_defs, ba_assignments, extra_transmitters, env_vars,
                   signal_value_types, value_table_rows>>

AnyOrderValueTables ==
    /\ MayRun("value_tables")
    /\ value_tables' = parse_value_tables(content, 1, value_tables)
    /\ pc' = pc \cup {"value_tables"}
    /\ UNCHANGED <<content, nodes, messages, signals, signal_value_tables,
                   env_var_value_tables, comments, ba_defs, ba_assignments,
                   extra_transmitters, env_vars, signal_value_types,
                   value_table_rows>>

AnyOrderMessagesAndSignals ==
    /\ MayRun("messages_and_signals")
    /\ messages' = messages \o parse_messages(content, 1)
    /\ signals' = parse_signals(content, 1, EmptySignalLists(messages'))
    /\ pc' = pc \cup {"messages_and_signals"}
    /\ UNCHANGED <<content, nodes, value_tables, signal_value_tables,
                   env_var_value_tables, comments, ba_defs, ba_assignments,
                   extra_transmitters, env_vars, signal_value_types,
                   value_table_rows>>

AnyOrderSignalValEntries ==
    /\ MayRun("signal_val_entries")
    /\ signal_value_tables' = parse_signal_val_entries(content, 1, signal_value_tables)
    /\ pc' = pc \cup {"signal_val_entries"}
    /\ UNCHANGED <<content, nodes, messages, signals, value_tables,
                   env_var_value_tables, comments, ba_defs, ba_assignments,
                   extra_transmitters, env_vars, signal_value_types,
                   value_table_rows>>

AnyOrderEnvVarValEntries ==
    /\ MayRun("env_var_val_entries")
    /\ env_var_value_tables' = parse_env_var_val_entries(content, 1, env_var_value_tables)
    /\ pc' = pc \cup {"env_var_val_entries"}
    /\ UNCHANGED <<content, nodes, messages, signals, value_tables,
                   signal_value_tables, comments, ba_defs, ba_assignments,
                   extra_transmitters, env_vars, signal_value_types,
                   value_table_rows>>

AnyOrderComments ==
    /\ MayRun("comments")
    /\ comments' = comments \o parse_comments(content)
    /\ pc' = pc \cup {"comments"}
    /\ UNCHANGED <<content, nodes, messages, signals, value_tables,
                   signal_value_tables, env_var_value_tables, ba_defs,
                   ba_assignments, extra_transmitters, env_vars,
                   signal_value_types, value_table_rows>>

AnyOrderBaDefs ==
    /\ MayRun("ba_defs")
    /\ ba_defs' = ba_defs \o parse_ba_defs(content, 1)
    /\ pc' = pc \cup {"ba_defs"}
    /\ UNCHANGED <<content, nodes, messages, signals, value_tables,
                   signal_value_tables, env_var_value_tables, comments,
                   ba_assignments, extra_transmitters, env_vars,
                   signal_value_types, value_table_rows>>

AnyOrderBaAssignments ==
    /\ MayRun("ba_assignments")
    /\ LET r == parse_ba_assignments(content, 1, ba_assignments)
       IN  /\ ba_assignments' = r.recs
           /\ pc' = IF r.raised THEN pc \cup {"ba_assignments", "failed"}
                    ELSE pc \cup {"ba_assignments"}
    /\ UNCHANGED <<content, nodes, messages, signals, value_tables,
                   signal_value_tables, env_var_value_tables, comments,
                   ba_defs, extra_transmitters, env_vars, signal_value_types,
                   value_table_rows>>

AnyOrderExtraTransmitters ==
    /\ MayRun("extra_transmitters")
    /\ extra_transmitters' = parse_extra_transmitters(content, 1, extra_transmitters)
    /\ pc' = pc \cup {"extra_transmitters"}
    /\ UNCHANGED <<content, nodes, messages, signals, value_tables,
                   signal_value_tables, env_var_value_tables, comments,
                   ba_defs, ba_assignments, env_vars, signal_value_types,
                   value_table_rows>>

AnyOrderEnvVars ==
    /\ MayRun("env_vars")
    /\ env_vars' = env_vars \o parse_env_vars(content, 1)
    /\ pc' = pc \cup {"env_vars"}
    /\ UNCHANGED <<content, nodes, messages, signals, value_tables,
                   signal_value_tables, env_var_value_tables, comments,
                   ba_defs, ba_assignments, extra_transmitters,
                   signal_value_types, value_table_rows>>

AnyOrderSignalValueTypes ==
    /\ MayRun("signal_value_types")
    /\ signal_value_types' = parse_signal_value_types(content, 1, signal_value_types)
    /\ pc' = pc \cup {"signal_value_types"}
    /\ UNCHANGED <<content, nodes, messages, signals, value_tables,
                   signal_value_tables, env_var_value_tables, comments,
                   ba_defs, ba_assignments, extra_transmitters, env_vars,
                   value_table_rows>>

NextAnyOrder ==
    \/ AnyOrderNodes
    \/ AnyOrderValueTables
    \/ AnyOrderMessagesAndSignals
    \/ AnyOrderSignalValEntries
    \/ AnyOrderEnvVarValEntries
    \/ AnyOrderComments
    \/ AnyOrderBaDefs
    \/ AnyOrderBaAssignments
    \/ AnyOrderExtraTransmitters
    \/ AnyOrderEnvVars
    \/ AnyOrderSignalValueTypes

SpecAnyOrder == InitAnyOrder /\ [][NextAnyOrder]_vars

\* the model parse() leaves behind, its passes taken in the order of parse()
ModelOfParse(c) ==
    LET ba == parse_ba_assignments(c, 1, <<>>)
        msgs == parse_messages(c, 1)
    IN  [nodes |-> parse_nodes(c),
         value_tables |-> parse_value_tables(c, 1, EmptyDict),
         messages |-> msgs,
         signals |-> parse_signals(c, 1, EmptySignalLists(msgs)),
         signal_value_tables |-> parse_signal_val_entries(c, 1, EmptyDict),
         env_var_value_tables |-> parse_env_var_val_entries(c, 1, EmptyDict),
         comments |-> parse_comments(c),
         ba_defs |-> parse_ba_defs(c, 1),
         ba_assignments |-> ba.recs,
         extra_transmitters |->
            IF ba.raised THEN EmptyDict ELSE parse_extra_transmitters(c, 1, EmptyDict),
         env_vars |-> IF ba.raised THEN <<>> ELSE parse_env_vars(c, 1),
         signal_value_types |->
            IF ba.raised THEN EmptyDict ELSE parse_signal_value_types(c, 1, EmptyDict)]

\* the model as it stands
Model ==
    [nodes |-> nodes, value_tables |-> value_tables, messages |-> messages,
     signals |-> signals, signal_value_tables |-> signal_value_tables,
     env_var_value_tables |-> env_var_value_tables, comments |-> comments,
     ba_defs |-> ba_defs, ba_assignments |-> ba_assignments,
     extra_transmitters |-> extra_transmitters, env_vars |-> env_vars,
     signal_value_types |-> signal_value_types]

\* no pass is left to run in the chosen order
OrderEnded == PassNames \subseteq pc \/ "failed" \in pc

\* C11: the passes commute: run in any order, they leave the same final
\* model as run in the order of parse().
C11_PassesCommute == OrderEnded => Model = ModelOfParse(content)

====
